---- MODULE Spec2Model ----
(***************************************************************************)
(* Model of the asynchronous task orchestration and resilience layer of    *)
(* BSM (src/bsm/core/async_manager.py): AsyncTaskManager on top of a       *)
(* concurrent.futures.ThreadPoolExecutor, CircuitBreaker and RetryPolicy;  *)
(* and of the provider fallback chain (src/bsm/core/ai_providers.py):      *)
(* AIProviderManager.analyze_with_fallback.                                *)
(*                                                                         *)
(* Threads.  The UI thread issues submit_async_task / cancel_task /        *)
(* update_progress / shutdown one after the other; the pool's worker       *)
(* threads run _run_async_task and the future's done callback and          *)
(* interleave with the UI thread at every statement that touches shared    *)
(* state.  uiPc is the UI thread's position, wpc[id] the position of the   *)
(* worker thread that executes the work item of task id.                   *)
(***************************************************************************)
EXTENDS Integers, Sequences, FiniteSets, TLC

\* ---------------------------------------------------------------- bounds
NumIds == 2          \* task ids used by the callers in Spec
MaxSubmits == 3      \* submit_async_task calls in a run
MaxProgress == 1     \* update_progress emissions in a run

MaxThreshold == 2    \* failure_threshold values given to CircuitBreaker
MaxRecovery == 2     \* recovery_timeout values given to CircuitBreaker
MaxTime == 4         \* clock readings
NumCallers == 2      \* coroutines calling through the breaker

NumProviders == 3    \* provider names known to the callers
MaxFallbacks == 2    \* length of the fallback_providers list

MaxAttempts == 3     \* max_attempts values given to RetryPolicy
MaxInitialDelay == 2 \* initial_delay values
MaxDelayCap == 4     \* max_delay values
MaxBase == 2         \* exponential_base values

\* ------------------------------------------------------ program constants
MaxWorkers == 4      \* ThreadPoolExecutor(max_workers=4)
NoTime == -1         \* self._last_failure_time = None

NoTimeout == 0       \* timeout=None (any falsy timeout takes the same branch)

TaskIds == 1..NumIds             \* the ids the callers use in Spec
PoolIds == 1..(MaxWorkers + 1)   \* one task more than the pool has threads
AllIds == TaskIds \cup PoolIds
Callers == 1..NumCallers
ProviderNames == 1..NumProviders
FallbackLists == UNION {[1..n -> ProviderNames] : n \in 0..MaxFallbacks}
TimeoutValues == {NoTimeout, 1}
ProgressValues == {-1, 0, 100, 101}

VARIABLES
  shutdownFlag,   \* self._shutdown
  tasks,          \* keys of self._tasks (ids whose asyncio task is stored)
  taskFutures,    \* self._task_futures: id -> state of its future, "none" if absent
  futResult,      \* id -> TaskResult set on the future, NoResult before
  callbacks,      \* id -> the done callback is registered on the future
  workQueue,      \* the executor's FIFO work queue of work items
  wpc,            \* id -> position of the worker thread running that work item
                  \*       ("blocked": inside the caller's coro_func for good)
  uiPc,           \* position of the UI thread
  emitted,        \* id -> number of emissions of each Qt signal
  timeoutOf,      \* id -> timeout argument of the accepted submission
  elapsed,        \* id -> the timeout period has passed since the submission
  submits,        \* number of submit_async_task calls so far
  progressCalls,  \* number of update_progress emissions so far
  progressLog,    \* the (task_id, progress) pairs that progress_updated carried
  terminals,      \* id -> the signals emitted by _handle_task_completion for
                  \*       the task accepted last under this id, in order
  cancelReq,      \* id -> where the first cancel() found that task ("none"
                  \*       while cancel() was not called on it)
  \* one CircuitBreaker instance and the coroutines that call through it
  failureThreshold,  \* self.failure_threshold
  recoveryTimeout,   \* self.recovery_timeout
  cbState,           \* self._state
  failureCount,      \* self._failure_count
  lastFailureTime,   \* self._last_failure_time, NoTime for None
  now,               \* time.time()
  callPc,            \* caller -> position inside `async with breaker.call(f)`
  entered,           \* caller -> self._state when its call went on to func
  outcome,           \* caller -> how its last call through the breaker ended
  \* one AIProviderManager and one analyze_with_fallback call on it
  providers,         \* keys of self.providers: the registered provider names
  primaryProvider,   \* argument primary_provider
  fallbackProviders, \* argument fallback_providers, a list of names
  fbPc,              \* position of the call inside analyze_with_fallback
  fbIdx,             \* position of provider_name in fallback_providers
  invoked,           \* names whose analyze_text was awaited, in order
  fbResult,          \* what the call returned or raised
  \* one RetryPolicy and one execute(func) call on it
  retryPolicy,       \* max_attempts, initial_delay, max_delay, exponential_base
  attempt,           \* loop variable of execute (0-based)
  rpPc,              \* position of the call inside execute
  funcLog,           \* how each invocation of func ended so far, in order
  slept,             \* the delays given to asyncio.sleep, in order
  lastException,     \* last_exception: the invocation that raised it, 0 for None
  rpResult           \* what execute returned or raised

mgrVars == <<shutdownFlag, tasks, taskFutures, futResult, callbacks, workQueue,
             wpc, uiPc, emitted, timeoutOf, elapsed, submits,
             progressCalls, progressLog, terminals, cancelReq>>

cbVars == <<failureThreshold, recoveryTimeout, cbState, failureCount,
            lastFailureTime, now, callPc, entered, outcome>>

fbVars == <<providers, primaryProvider, fallbackProviders, fbPc, fbIdx,
            invoked, fbResult>>

rpVars == <<retryPolicy, attempt, rpPc, funcLog, slept, lastException,
            rpResult>>

vars == <<mgrVars, cbVars, fbVars, rpVars>>

NoResult == [status |-> "none", error |-> "none"]
NoSignals == [started |-> 0, completed |-> 0, failed |-> 0, cancelled |-> 0,
              progress |-> 0]

\* threads of the pool that are executing a work item
Busy == Cardinality({i \in DOMAIN wpc : wpc[i] # "idle"})

\* pyqtSignal.emit: one more emission of signal sig for task id
Emit(em, id, sig) == [em EXCEPT ![id][sig] = @ + 1]

\* (variant) a create_task that works without a running loop
CreateTaskAnyLoop(loopRunning) == "task"

\* asyncio.create_task(coro): needs a loop that is running in the calling
\* thread, else RuntimeError("no running event loop")
CreateTask(loopRunning) == IF loopRunning THEN "task" ELSE "RuntimeError"

\* _run_async_task: the TaskResults it can return.  The loop made by
\* new_event_loop() is only started by run_until_complete (line 143), so it
\* is not running when create_task is called (lines 133/137): the call raises,
\* `except Exception` (line 163) builds the FAILED result, and neither the
\* body nor wait_for is ever started.
RunAsyncTask(timeout) ==
  LET loopRunning == FALSE
      task == CreateTask(loopRunning)
  IN  IF task = "RuntimeError"
      THEN {[status |-> "FAILED", error |-> "RuntimeError"]}
      ELSE \* lines 143-169: run_until_complete returns, or raises what the
           \* body raised; line 152 takes every asyncio.TimeoutError for a
           \* timeout, that of wait_for (timeout given) and one that the
           \* body raises itself (any timeout, None included)
           {[status |-> "COMPLETED", error |-> "none"],
            [status |-> "CANCELLED", error |-> "none"],
            [status |-> "FAILED", error |-> "BodyError"],
            [status |-> "FAILED", error |-> "TimeoutError"]}

\* _handle_task_completion: the signal emitted for a future in state fstate
\* holding result res.  future.result() of a cancelled future raises
\* concurrent.futures.CancelledError, an Exception: line 188 catches it.
CompletionSignal(fstate, res) ==
  IF fstate = "CANCELLED" THEN [sig |-> "failed", msg |-> "CancelledError"]
  ELSE IF res.status = "COMPLETED" THEN [sig |-> "completed", msg |-> "none"]
  ELSE IF res.status = "CANCELLED" THEN [sig |-> "cancelled", msg |-> "none"]
  ELSE [sig |-> "failed", msg |-> res.error]

\* (variant) a membership test that never finds the id
IsTaskRunningNever(id) == FALSE

\* is_task_running, line 222, and the test of line 90: task_id in
\* self._task_futures
IsTaskRunning(id) == taskFutures[id] # "none"

MgrInit ==
  /\ shutdownFlag = FALSE
  /\ tasks = {}
  /\ taskFutures = [i \in AllIds |-> "none"]
  /\ futResult = [i \in AllIds |-> NoResult]
  /\ callbacks = [i \in AllIds |-> FALSE]
  /\ workQueue = <<>>
  /\ wpc = [i \in AllIds |-> "idle"]
  /\ uiPc = <<"idle", 0>>
  /\ emitted = [i \in AllIds |-> NoSignals]
  /\ timeoutOf = [i \in AllIds |-> NoTimeout]
  /\ elapsed = [i \in AllIds |-> FALSE]
  /\ submits = 0
  /\ progressCalls = 0
  /\ progressLog = <<>>
  /\ terminals = [i \in AllIds |-> <<>>]
  /\ cancelReq = [i \in AllIds |-> "none"]

\* ------------------------------------------------------------ UI thread

\* (variant) a flag test that never sees the shutdown
ShuttingDownNever == FALSE

\* submit_async_task, line 86: if self._shutdown
ShuttingDown == shutdownFlag

\* submit_async_task, lines 86-88: the manager is shutting down;
\* task_failed(id, "Task manager is shutting down")
SubmitShutdown(id) ==
  /\ uiPc = <<"idle", 0>>
  /\ ShuttingDown
  /\ submits' = submits + 1
  /\ emitted' = Emit(emitted, id, "failed")
  /\ UNCHANGED <<shutdownFlag, tasks, taskFutures, futResult, callbacks,
                 workQueue, wpc, uiPc, timeoutOf, elapsed, terminals,
                 cancelReq, progressCalls, progressLog>>
  /\ UNCHANGED <<cbVars, fbVars, rpVars>>

\* submit_async_task, lines 90-92: the id is already in _task_futures;
\* task_failed(id, "Task <id> is already running")
SubmitDuplicate(id) ==
  /\ uiPc = <<"idle", 0>>
  /\ ~ShuttingDown
  /\ IsTaskRunning(id)
  /\ submits' = submits + 1
  /\ emitted' = Emit(emitted, id, "failed")
  /\ UNCHANGED <<shutdownFlag, tasks, taskFutures, futResult, callbacks,
                 workQueue, wpc, uiPc, timeoutOf, elapsed, terminals,
                 cancelReq, progressCalls, progressLog>>
  /\ UNCHANGED <<cbVars, fbVars, rpVars>>

\* submit_async_task, lines 95-105: executor.submit queues the work item with
\* a PENDING future, the future is stored and task_started is emitted.  No
\* worker step reads what these lines write, so they are one step.
SubmitAccept(id, timeout) ==
  /\ uiPc = <<"idle", 0>>
  /\ ~ShuttingDown
  /\ ~IsTaskRunning(id)
  /\ submits' = submits + 1
  /\ workQueue' = Append(workQueue, [id |-> id, cancelled |-> FALSE])
  /\ taskFutures' = [taskFutures EXCEPT ![id] = "PENDING"]
  /\ futResult' = [futResult EXCEPT ![id] = NoResult]
  /\ callbacks' = [callbacks EXCEPT ![id] = FALSE]
  /\ emitted' = Emit(emitted, id, "started")
  /\ timeoutOf' = [timeoutOf EXCEPT ![id] = timeout]
  /\ elapsed' = [elapsed EXCEPT ![id] = FALSE]
  /\ terminals' = [terminals EXCEPT ![id] = <<>>]
  /\ cancelReq' = [cancelReq EXCEPT ![id] = "none"]
  /\ uiPc' = <<"add_done_callback", id>>
  /\ UNCHANGED <<shutdownFlag, tasks, wpc, progressCalls, progressLog>>
  /\ UNCHANGED <<cbVars, fbVars, rpVars>>

\* _handle_task_completion, lines 177-190: the emission
HandleEmit(id, fstate) ==
  LET s == CompletionSignal(fstate, futResult[id])
  IN  /\ emitted' = Emit(emitted, id, s.sig)
      /\ terminals' = [terminals EXCEPT ![id] = Append(@, s)]

\* _handle_task_completion, line 192: the future leaves _task_futures, and
\* with it its result and its callback list
PopFuture(id) ==
  /\ taskFutures' = [taskFutures EXCEPT ![id] = "none"]
  /\ futResult' = [futResult EXCEPT ![id] = NoResult]
  /\ callbacks' = [callbacks EXCEPT ![id] = FALSE]

\* _handle_task_completion run in the UI thread (the future was already done
\* or is cancelled by this thread): emission, then line 192 pops the future.
\* No worker reads _task_futures[id] for such a future, so it is one step.
HandleTaskCompletion(id, fstate) ==
  /\ HandleEmit(id, fstate)
  /\ PopFuture(id)

\* submit_async_task, lines 108-110: add_done_callback registers the handler,
\* or runs it at once in the UI thread when the future is already done
SubmitAddCallback(id) ==
  /\ uiPc = <<"add_done_callback", id>>
  /\ uiPc' = <<"idle", 0>>
  /\ IF taskFutures[id] \in {"FINISHED", "CANCELLED"}
     THEN HandleTaskCompletion(id, taskFutures[id])
     ELSE /\ callbacks' = [callbacks EXCEPT ![id] = TRUE]
          /\ UNCHANGED <<emitted, terminals, taskFutures, futResult>>
  /\ UNCHANGED <<shutdownFlag, tasks, workQueue, wpc, timeoutOf, elapsed,
                 submits, cancelReq, progressCalls, progressLog>>
  /\ UNCHANGED <<cbVars, fbVars, rpVars>>

\* (variant) future.cancel() that leaves the work item runnable
CancelQueuedKeepsItem(q, id) == q

\* the work items of task id that wait in the queue are marked cancelled
\* (their future is in state CANCELLED)
CancelQueued(q, id) ==
  [k \in DOMAIN q |-> IF q[k].id = id THEN [q[k] EXCEPT !.cancelled = TRUE]
                      ELSE q[k]]

\* where cancel_task finds the task: its future's state while the work item
\* waits or runs, the worker's position once the result is set
FoundAt(id) ==
  IF taskFutures[id] \in {"PENDING", "RUNNING"} THEN taskFutures[id]
  ELSE wpc[id]

\* cancel_task, lines 202-213
CancelTask(id) ==
  /\ uiPc = <<"idle", 0>>
  /\ IF id \in tasks
     THEN \* lines 202-205: task.cancel() on the stored asyncio task
          /\ cancelReq' = [cancelReq EXCEPT ![id] =
                             IF @ = "none" THEN FoundAt(id) ELSE @]
          /\ UNCHANGED <<taskFutures, futResult, callbacks, workQueue,
                         emitted, terminals>>
     ELSE IF taskFutures[id] # "none"
     THEN \* lines 208-211: future.cancel(); it cancels a PENDING future and
          \* runs its done callbacks in this thread, and does nothing to a
          \* RUNNING or FINISHED one; cancel_task returns True either way
          /\ cancelReq' = [cancelReq EXCEPT ![id] =
                             IF @ = "none" THEN FoundAt(id) ELSE @]
          /\ IF taskFutures[id] = "PENDING"
             THEN /\ workQueue' = CancelQueued(workQueue, id)
                  /\ IF callbacks[id]
                     THEN HandleTaskCompletion(id, "CANCELLED")
                     ELSE /\ taskFutures' =
                               [taskFutures EXCEPT ![id] = "CANCELLED"]
                          /\ UNCHANGED <<futResult, callbacks, emitted,
                                         terminals>>
             ELSE UNCHANGED <<taskFutures, futResult, callbacks, workQueue,
                              emitted, terminals>>
     ELSE \* line 213: return False
          UNCHANGED <<cancelReq, taskFutures, futResult, callbacks,
                      workQueue, emitted, terminals>>
  /\ UNCHANGED <<shutdownFlag, tasks, wpc, uiPc, timeoutOf, elapsed, submits,
                 progressCalls, progressLog>>
  /\ UNCHANGED <<cbVars, fbVars, rpVars>>

\* (variant) a range test that lets 101 by
InRangeOffByOne(progress) == 0 <= progress /\ progress <= 101

\* update_progress, line 226: 0 <= progress <= 100
InRange(progress) == 0 <= progress /\ progress <= 100

\* update_progress, lines 224-227
UpdateProgress(id, progress) ==
  /\ uiPc = <<"idle", 0>>
  /\ IF InRange(progress)
     THEN /\ emitted' = Emit(emitted, id, "progress")
          /\ progressCalls' = progressCalls + 1
          /\ progressLog' = Append(progressLog,
                                   [id |-> id, progress |-> progress])
     ELSE UNCHANGED <<emitted, progressCalls, progressLog>>
  /\ UNCHANGED <<shutdownFlag, tasks, taskFutures, futResult, callbacks,
                 workQueue, wpc, uiPc, timeoutOf, elapsed, submits, terminals,
                 cancelReq>>
  /\ UNCHANGED <<cbVars, fbVars, rpVars>>

\* shutdown, lines 231-232: the flag, then cancel_all_tasks (lines 217-218)
\* calls cancel_task for the keys of _tasks, which takes lines 202-205
ShutdownCall ==
  /\ uiPc = <<"idle", 0>>
  /\ shutdownFlag' = TRUE
  /\ cancelReq' = [i \in AllIds |->
                     IF i \in tasks /\ cancelReq[i] = "none" THEN FoundAt(i)
                     ELSE cancelReq[i]]
  /\ uiPc' = <<"executor_shutdown", 0>>
  /\ UNCHANGED <<tasks, taskFutures, futResult, callbacks, workQueue, wpc,
                 emitted, timeoutOf, elapsed, submits, terminals,
                 progressCalls, progressLog>>
  /\ UNCHANGED <<cbVars, fbVars, rpVars>>

\* (variant) executor.shutdown(wait=False)
ExecutorNoWait == TRUE

\* executor.shutdown(wait=True), line 233, joins the pool's threads: they
\* exit when the queue is drained and no work item is being executed
ExecutorDrained == workQueue = <<>> /\ Busy = 0

\* shutdown, line 233: executor.shutdown(wait=True) returns
ShutdownReturn ==
  /\ uiPc = <<"executor_shutdown", 0>>
  /\ ExecutorDrained
  /\ uiPc' = <<"idle", 0>>
  /\ UNCHANGED <<shutdownFlag, tasks, taskFutures, futResult, callbacks,
                 workQueue, wpc, emitted, timeoutOf, elapsed, submits,
                 terminals, cancelReq, progressCalls, progressLog>>
  /\ UNCHANGED <<cbVars, fbVars, rpVars>>

\* --------------------------------------------------------- worker threads

\* a free pool thread takes the oldest work item; the item of a cancelled
\* future is dropped (set_running_or_notify_cancel returns False)
WorkerSkip ==
  /\ workQueue # <<>>
  /\ Busy < MaxWorkers
  /\ Head(workQueue).cancelled
  /\ workQueue' = Tail(workQueue)
  /\ UNCHANGED <<shutdownFlag, tasks, taskFutures, futResult, callbacks, wpc,
                 uiPc, emitted, timeoutOf, elapsed, submits, terminals,
                 cancelReq, progressCalls, progressLog>>
  /\ UNCHANGED <<cbVars, fbVars, rpVars>>

\* a free pool thread takes the oldest work item and starts _run_async_task
WorkerTake ==
  /\ workQueue # <<>>
  /\ Busy < MaxWorkers
  /\ ~Head(workQueue).cancelled
  /\ LET id == Head(workQueue).id
     IN  /\ taskFutures' = [taskFutures EXCEPT ![id] = "RUNNING"]
         /\ wpc' = [wpc EXCEPT ![id] = "run"]
  /\ workQueue' = Tail(workQueue)
  /\ UNCHANGED <<shutdownFlag, tasks, futResult, callbacks, uiPc, emitted,
                 timeoutOf, elapsed, submits, terminals, cancelReq,
                 progressCalls, progressLog>>
  /\ UNCHANGED <<cbVars, fbVars, rpVars>>

\* _run_async_task, lines 121-173, returns; the executor sets the result on
\* the future and goes on to the done callback if one is registered
WorkerRun(id) ==
  /\ wpc[id] = "run"
  /\ \E res \in RunAsyncTask(timeoutOf[id]) :
        futResult' = [futResult EXCEPT ![id] = res]
  /\ tasks' = tasks \ {id}
  /\ taskFutures' = [taskFutures EXCEPT ![id] = "FINISHED"]
  /\ wpc' = [wpc EXCEPT ![id] = IF callbacks[id] THEN "cb_emit" ELSE "idle"]
  /\ UNCHANGED <<shutdownFlag, callbacks, workQueue, uiPc, emitted, timeoutOf,
                 elapsed, submits, terminals, cancelReq, progressCalls, progressLog>>
  /\ UNCHANGED <<cbVars, fbVars, rpVars>>

\* _run_async_task, line 129: coro_func(*args, **kwargs) is the caller's
\* code, run in the worker thread.  An `async def` returns its coroutine at
\* once; any other callable that returns a coroutine (the declared type)
\* runs first, and one that never returns keeps the thread for good.
WorkerBlocks(id) ==
  /\ wpc[id] = "run"
  /\ wpc' = [wpc EXCEPT ![id] = "blocked"]
  /\ UNCHANGED <<shutdownFlag, tasks, taskFutures, futResult, callbacks,
                 workQueue, uiPc, emitted, timeoutOf, elapsed, submits,
                 terminals, cancelReq, progressCalls, progressLog>>
  /\ UNCHANGED <<cbVars, fbVars, rpVars>>

\* _handle_task_completion in the worker thread, lines 177-190
WorkerCallbackEmit(id) ==
  /\ wpc[id] = "cb_emit"
  /\ HandleEmit(id, taskFutures[id])
  /\ wpc' = [wpc EXCEPT ![id] = "cb_pop"]
  /\ UNCHANGED <<shutdownFlag, tasks, taskFutures, futResult, callbacks,
                 workQueue, uiPc, timeoutOf, elapsed, submits, cancelReq,
                 progressCalls, progressLog>>
  /\ UNCHANGED <<cbVars, fbVars, rpVars>>

\* _handle_task_completion in the worker thread, line 192
WorkerCallbackPop(id) ==
  /\ wpc[id] = "cb_pop"
  /\ PopFuture(id)
  /\ wpc' = [wpc EXCEPT ![id] = "idle"]
  /\ UNCHANGED <<shutdownFlag, tasks, workQueue, uiPc, emitted, timeoutOf,
                 elapsed, submits, terminals, cancelReq, progressCalls, progressLog>>
  /\ UNCHANGED <<cbVars, fbVars, rpVars>>

\* the timeout given to submit_async_task passes while the task has not
\* returned
TimeoutElapses(id) ==
  /\ timeoutOf[id] # NoTimeout
  /\ taskFutures[id] \in {"PENDING", "RUNNING"}
  /\ ~elapsed[id]
  /\ elapsed' = [elapsed EXCEPT ![id] = TRUE]
  /\ UNCHANGED <<shutdownFlag, tasks, taskFutures, futResult, callbacks,
                 workQueue, wpc, uiPc, emitted, timeoutOf, submits, terminals,
                 cancelReq, progressCalls, progressLog>>
  /\ UNCHANGED <<cbVars, fbVars, rpVars>>

\* ------------------------------------------------------- CircuitBreaker
\* Callers use `async with breaker.call(func) as result: <block>` on one event
\* loop: a coroutine runs without interruption from one await to the next.

\* CircuitBreaker.__init__, lines 252-258
CBConstructed ==
  /\ cbState = "CLOSED"
  /\ failureCount = 0
  /\ lastFailureTime = NoTime
  /\ now = 0
  /\ callPc = [c \in Callers |-> "idle"]
  /\ entered = [c \in Callers |-> "none"]
  /\ outcome = [c \in Callers |-> "none"]

CBInit ==
  /\ failureThreshold \in 1..MaxThreshold
  /\ recoveryTimeout \in 1..MaxRecovery
  /\ CBConstructed

\* (variant) a recovery test that always passes
RecoveryElapsedAlways == TRUE

\* line 264: time.time() - self._last_failure_time >= self.recovery_timeout
RecoveryElapsed == now - lastFailureTime >= recoveryTimeout

\* (variant) a rejection raised inside the try of line 269, where line 276
\* counts it
RejectionCounted ==
  /\ failureCount' = failureCount + 1
  /\ lastFailureTime' = now
  /\ UNCHANGED cbState

\* line 267: the rejection is raised before the try of line 269; no handler
\* of call sees it
Rejection == UNCHANGED <<cbState, failureCount, lastFailureTime>>

\* call, lines 263-267: the breaker is OPEN and the recovery timeout has not
\* elapsed; Exception("Circuit breaker is OPEN") is raised, func is not called
CallRejected(c) ==
  /\ callPc[c] = "idle"
  /\ cbState = "OPEN"
  /\ ~RecoveryElapsed
  /\ outcome' = [outcome EXCEPT ![c] = "rejected"]
  /\ Rejection
  /\ UNCHANGED <<failureThreshold, recoveryTimeout, now, callPc, entered>>
  /\ UNCHANGED <<mgrVars, fbVars, rpVars>>

\* call, lines 263-265 and 270: the breaker is OPEN, the recovery timeout has
\* elapsed; the state becomes HALF_OPEN and func is awaited
CallTrial(c) ==
  /\ callPc[c] = "idle"
  /\ cbState = "OPEN"
  /\ RecoveryElapsed
  /\ cbState' = "HALF_OPEN"
  /\ callPc' = [callPc EXCEPT ![c] = "func"]
  /\ entered' = [entered EXCEPT ![c] = "HALF_OPEN"]
  /\ outcome' = [outcome EXCEPT ![c] = "none"]
  /\ UNCHANGED <<failureThreshold, recoveryTimeout, failureCount,
                 lastFailureTime, now>>
  /\ UNCHANGED <<mgrVars, fbVars, rpVars>>

\* call, lines 263 and 270: the state is not OPEN; func is awaited
CallPass(c) ==
  /\ callPc[c] = "idle"
  /\ cbState # "OPEN"
  /\ callPc' = [callPc EXCEPT ![c] = "func"]
  /\ entered' = [entered EXCEPT ![c] = cbState]
  /\ outcome' = [outcome EXCEPT ![c] = "none"]
  /\ UNCHANGED <<failureThreshold, recoveryTimeout, cbState, failureCount,
                 lastFailureTime, now>>
  /\ UNCHANGED <<mgrVars, fbVars, rpVars>>

\* (variant) a success that resets the breaker in every state
SuccessResetsAlways == TRUE

\* line 271: if self._state == "HALF_OPEN"
SuccessResets == cbState = "HALF_OPEN"

\* call, lines 270-274: func returned; `yield result` hands it to the block
FuncReturns(c) ==
  /\ callPc[c] = "func"
  /\ IF SuccessResets
     THEN cbState' = "CLOSED" /\ failureCount' = 0
     ELSE UNCHANGED <<cbState, failureCount>>
  /\ callPc' = [callPc EXCEPT ![c] = "block"]
  /\ UNCHANGED <<failureThreshold, recoveryTimeout, lastFailureTime, now,
                 entered, outcome>>
  /\ UNCHANGED <<mgrVars, fbVars, rpVars>>

\* (variant) a count that must exceed the threshold to open the breaker
RecordFailureOpensLate ==
  /\ failureCount' = failureCount + 1
  /\ lastFailureTime' = now
  /\ cbState' = IF failureCount + 1 > failureThreshold THEN "OPEN"
                ELSE cbState

\* (variant) `except Exception`: every exception is taken for a failure
MatchesAny(expected) == TRUE

\* line 276: `except self.expected_exception` takes the exception; expected
\* tells that the exception raised is an instance of that class
Matches(expected) == expected

\* call, lines 276-284: an exception of class expected_exception is counted,
\* may open the breaker, and is raised again
RecordFailure ==
  /\ failureCount' = failureCount + 1
  /\ lastFailureTime' = now
  /\ cbState' = IF failureCount + 1 >= failureThreshold THEN "OPEN"
                ELSE cbState

\* func raised: an expected_exception is handled by lines 276-284, any other
\* exception leaves the generator untouched
FuncRaises(c, expected) ==
  /\ callPc[c] = "func"
  /\ IF Matches(expected) THEN RecordFailure
     ELSE UNCHANGED <<cbState, failureCount, lastFailureTime>>
  /\ callPc' = [callPc EXCEPT ![c] = "idle"]
  /\ outcome' = [outcome EXCEPT ![c] =
                   IF expected THEN "raised" ELSE "raised_other"]
  /\ UNCHANGED <<failureThreshold, recoveryTimeout, now, entered>>
  /\ UNCHANGED <<mgrVars, fbVars, rpVars>>

\* the block of the `async with` ends normally: the generator finishes
BlockExits(c) ==
  /\ callPc[c] = "block"
  /\ callPc' = [callPc EXCEPT ![c] = "idle"]
  /\ outcome' = [outcome EXCEPT ![c] = "result"]
  /\ UNCHANGED <<failureThreshold, recoveryTimeout, cbState, failureCount,
                 lastFailureTime, now, entered>>
  /\ UNCHANGED <<mgrVars, fbVars, rpVars>>

\* the block raises: @asynccontextmanager throws the exception into the
\* generator at `yield result` (line 274), inside the try of line 269
BlockRaises(c, expected) ==
  /\ callPc[c] = "block"
  /\ IF Matches(expected) THEN RecordFailure
     ELSE UNCHANGED <<cbState, failureCount, lastFailureTime>>
  /\ callPc' = [callPc EXCEPT ![c] = "idle"]
  /\ outcome' = [outcome EXCEPT ![c] =
                   IF expected THEN "raised" ELSE "raised_other"]
  /\ UNCHANGED <<failureThreshold, recoveryTimeout, now, entered>>
  /\ UNCHANGED <<mgrVars, fbVars, rpVars>>

\* time.time() advances
Tick ==
  /\ now' = now + 1
  /\ UNCHANGED <<failureThreshold, recoveryTimeout, cbState, failureCount,
                 lastFailureTime, callPc, entered, outcome>>
  /\ UNCHANGED <<mgrVars, fbVars, rpVars>>

CBNext ==
  \/ \E c \in Callers : CallRejected(c)
  \/ \E c \in Callers : CallTrial(c)
  \/ \E c \in Callers : CallPass(c)
  \/ \E c \in Callers : FuncReturns(c)
  \/ \E c \in Callers : \E e \in BOOLEAN : FuncRaises(c, e)
  \/ \E c \in Callers : BlockExits(c)
  \/ \E c \in Callers : \E e \in BOOLEAN : BlockRaises(c, e)
  \/ now < MaxTime /\ Tick

\* ---------------------------------------------------- AIProviderManager
\* analyze_with_fallback(text, attitude_mode, primary_provider,
\* fallback_providers) is a coroutine; it shares nothing with other calls but
\* self.providers, which stays as registered while the call runs.

\* how an awaited provider.analyze_text(...) can end: a dict without the
\* 'error' key, a dict with it, an exception of class Exception, or
\* asyncio.CancelledError (a BaseException, which `except Exception` lets by)
AnalyzeOutcomes == {"result", "error", "Exception", "CancelledError"}

NoFbResult == [kind |-> "none", error |-> FALSE, provider_used |-> 0,
               fallback_used |-> FALSE, providers_tried |-> <<>>]

\* the dict a provider returns: 'provider_used' is the provider's own
\* get_name() (0: not a key of self.providers, e.g. 'OpenAI' for 'openai'),
\* no 'fallback_used' key, 'error' present for an error payload
ProviderDict(o) == [kind |-> "provider", error |-> (o = "error"),
                    provider_used |-> 0, fallback_used |-> FALSE,
                    providers_tried |-> <<>>]

\* an exception leaves analyze_with_fallback
FbRaised(o) == [NoFbResult EXCEPT !.kind = o]

\* (variant) a test that finds no error marker in any payload
HasErrorNever(d) == FALSE

\* lines 339 and 348: 'error' in result
HasError(d) == d.error

\* lines 356-360: the dict returned when no provider gave a clean result
AllFailedDict ==
  [kind |-> "all_failed", error |-> TRUE, provider_used |-> 0,
   fallback_used |-> FALSE,
   providers_tried |-> <<primaryProvider>> \o fallbackProviders]

\* AIProviderManager.__init__, line 318, and no call in progress
FBIdle ==
  /\ providers = {}
  /\ primaryProvider = 1
  /\ fallbackProviders = <<>>
  /\ fbPc = "idle"
  /\ fbIdx = 0
  /\ invoked = <<>>
  /\ fbResult = NoFbResult

\* a manager after any add_provider / remove_provider calls (lines 320-327),
\* and a call of analyze_with_fallback with any names (fallback_providers =
\* None is the empty list, lines 333-334)
FBInit ==
  /\ providers \in SUBSET ProviderNames
  /\ primaryProvider \in ProviderNames
  /\ fallbackProviders \in FallbackLists
  /\ fbPc = "start"
  /\ fbIdx = 0
  /\ invoked = <<>>
  /\ fbResult = NoFbResult

\* the outcome of the analyze_text call being awaited is recorded
Answered(o) == [invoked EXCEPT ![Len(invoked)].outcome = o]

\* lines 337-338: the primary is awaited if it is registered, else the
\* fallback loop starts
FBTryPrimary ==
  /\ fbPc = "start"
  /\ IF primaryProvider \in providers
     THEN /\ invoked' = Append(invoked, [name |-> primaryProvider,
                                         outcome |-> "pending"])
          /\ fbPc' = "await_primary"
     ELSE /\ fbPc' = "for"
          /\ UNCHANGED invoked
  /\ UNCHANGED <<providers, primaryProvider, fallbackProviders, fbIdx,
                 fbResult>>
  /\ UNCHANGED <<mgrVars, cbVars, rpVars>>

\* lines 338-341: the primary's analyze_text ends.  The await is not inside a
\* try: whatever it raises leaves analyze_with_fallback.
FBPrimaryAnswers(o) ==
  /\ fbPc = "await_primary"
  /\ invoked' = Answered(o)
  /\ IF o \in {"Exception", "CancelledError"}
     THEN /\ fbResult' = FbRaised(o)
          /\ fbPc' = "raised"
     ELSE IF ~HasError(ProviderDict(o))
     THEN /\ fbResult' = [ProviderDict(o) EXCEPT
                            !.provider_used = primaryProvider]
          /\ fbPc' = "returned"
     ELSE /\ fbPc' = "for"
          /\ UNCHANGED fbResult
  /\ UNCHANGED <<providers, primaryProvider, fallbackProviders, fbIdx>>
  /\ UNCHANGED <<mgrVars, cbVars, rpVars>>

\* lines 344-347: the loop takes the next name of fallback_providers and
\* awaits its provider if the name is registered
FBTryFallback ==
  /\ fbPc = "for"
  /\ fbIdx < Len(fallbackProviders)
  /\ fbIdx' = fbIdx + 1
  /\ LET provider_name == fallbackProviders[fbIdx + 1]
     IN  IF provider_name \in providers
         THEN /\ invoked' = Append(invoked, [name |-> provider_name,
                                             outcome |-> "pending"])
              /\ fbPc' = "await_fallback"
         ELSE UNCHANGED <<invoked, fbPc>>
  /\ UNCHANGED <<providers, primaryProvider, fallbackProviders, fbResult>>
  /\ UNCHANGED <<mgrVars, cbVars, rpVars>>

\* lines 347-353: a fallback's analyze_text ends; `except Exception:
\* continue` takes the loop on, CancelledError is not caught
FBFallbackAnswers(o) ==
  /\ fbPc = "await_fallback"
  /\ invoked' = Answered(o)
  /\ IF o = "CancelledError"
     THEN /\ fbResult' = FbRaised(o)
          /\ fbPc' = "raised"
     ELSE IF o # "Exception" /\ ~HasError(ProviderDict(o))
     THEN /\ fbResult' = [ProviderDict(o) EXCEPT
                            !.provider_used = fallbackProviders[fbIdx],
                            !.fallback_used = TRUE]
          /\ fbPc' = "returned"
     ELSE /\ fbPc' = "for"
          /\ UNCHANGED fbResult
  /\ UNCHANGED <<providers, primaryProvider, fallbackProviders, fbIdx>>
  /\ UNCHANGED <<mgrVars, cbVars, rpVars>>

\* lines 355-360: the loop is over
FBAllFailed ==
  /\ fbPc = "for"
  /\ fbIdx = Len(fallbackProviders)
  /\ fbResult' = AllFailedDict
  /\ fbPc' = "returned"
  /\ UNCHANGED <<providers, primaryProvider, fallbackProviders, fbIdx,
                 invoked>>
  /\ UNCHANGED <<mgrVars, cbVars, rpVars>>

FBNext ==
  \/ FBTryPrimary
  \/ \E o \in AnalyzeOutcomes : FBPrimaryAnswers(o)
  \/ FBTryFallback
  \/ \E o \in AnalyzeOutcomes : FBFallbackAnswers(o)
  \/ FBAllFailed

\* ----------------------------------------------------------- RetryPolicy
\* execute(func) is a coroutine whose state is its own locals.  Delays are
\* whole seconds; an invocation of func is named by its number 1, 2, ...,
\* and so are the value it returns and the exception it raises.

\* how an awaited func(*args, **kwargs) can end: it returns, raises an
\* exception of class Exception, or is cancelled (asyncio.CancelledError is a
\* BaseException: line 309 does not catch it)
FuncOutcomes == {"return", "Exception", "CancelledError"}

\* RetryPolicy.__init__, lines 297-300, with at least one attempt
Policies == [max_attempts : 1..MaxAttempts,
             initial_delay : 1..MaxInitialDelay,
             max_delay : 1..MaxDelayCap,
             exponential_base : 1..MaxBase]

NoRpResult == [kind |-> "none", of |-> 0]

RECURSIVE Pow(_, _)
\* base ** n
Pow(base, n) == IF n = 0 THEN 1 ELSE base * Pow(base, n - 1)

\* min(a, b)
Min(a, b) == IF a <= b THEN a ELSE b

\* (variant) a loop that makes one more pass
RangeInclusive(n) == 0..n

\* range(n), line 306
Range(n) == 0..(n - 1)

\* (variant) a delay that max_delay does not cap
DelayUncapped(p, a) == p.initial_delay * Pow(p.exponential_base, a)

\* lines 313-316: the delay after the failure of attempt a (0-based)
Delay(p, a) ==
  Min(p.initial_delay * Pow(p.exponential_base, a), p.max_delay)

\* (variant) `except BaseException`: a cancellation is taken for a failure
CaughtBase(o) == o # "return"

\* line 309: `except Exception` takes what func raised
Caught(o) == o = "Exception"

\* (variant) the first exception is kept
FirstException(last, e) == IF last = 0 THEN e ELSE last

\* line 310: last_exception = e
LastException(last, e) == e

\* the default policy (lines 292-295 scaled to the bounds), no call in progress
RPIdle ==
  /\ retryPolicy = [max_attempts |-> 1, initial_delay |-> 1, max_delay |-> 1,
                    exponential_base |-> 1]
  /\ attempt = 0
  /\ rpPc = "idle"
  /\ funcLog = <<>>
  /\ slept = <<>>
  /\ lastException = 0
  /\ rpResult = NoRpResult

\* any policy, and execute(func) called on it: line 304
RPInit ==
  /\ retryPolicy \in Policies
  /\ attempt = 0
  /\ rpPc = "for"
  /\ funcLog = <<>>
  /\ slept = <<>>
  /\ lastException = 0
  /\ rpResult = NoRpResult

\* lines 306-308: the loop has another attempt and func is awaited
RPAttempt ==
  /\ rpPc = "for"
  /\ attempt \in Range(retryPolicy.max_attempts)
  /\ funcLog' = Append(funcLog, "pending")
  /\ rpPc' = "await_func"
  /\ UNCHANGED <<retryPolicy, attempt, slept, lastException, rpResult>>
  /\ UNCHANGED <<mgrVars, cbVars, fbVars>>

\* lines 308-322: func ends.  Its value is returned; an Exception is kept in
\* last_exception and, unless this was the last attempt, the delay is
\* computed and given to asyncio.sleep; a CancelledError leaves execute.
RPFuncAnswers(o) ==
  /\ rpPc = "await_func"
  /\ funcLog' = [funcLog EXCEPT ![Len(funcLog)] = o]
  /\ IF o = "return"
     THEN /\ rpResult' = [kind |-> "value", of |-> Len(funcLog)]
          /\ rpPc' = "returned"
          /\ UNCHANGED <<attempt, slept, lastException>>
     ELSE IF ~Caught(o)
     THEN /\ rpResult' = [kind |-> o, of |-> Len(funcLog)]
          /\ rpPc' = "raised"
          /\ UNCHANGED <<attempt, slept, lastException>>
     ELSE /\ lastException' = LastException(lastException, Len(funcLog))
          /\ IF attempt < retryPolicy.max_attempts - 1
             THEN /\ slept' = Append(slept, Delay(retryPolicy, attempt))
                  /\ rpPc' = "sleep"
                  /\ UNCHANGED attempt
             ELSE /\ attempt' = attempt + 1
                  /\ rpPc' = "for"
                  /\ UNCHANGED slept
          /\ UNCHANGED rpResult
  /\ UNCHANGED retryPolicy
  /\ UNCHANGED <<mgrVars, cbVars, fbVars>>

\* line 320: asyncio.sleep(delay) is over, the loop goes on
RPSleepEnds ==
  /\ rpPc = "sleep"
  /\ attempt' = attempt + 1
  /\ rpPc' = "for"
  /\ UNCHANGED <<retryPolicy, funcLog, slept, lastException, rpResult>>
  /\ UNCHANGED <<mgrVars, cbVars, fbVars>>

\* line 320: the coroutine is cancelled while it sleeps
RPSleepCancelled ==
  /\ rpPc = "sleep"
  /\ rpResult' = [kind |-> "CancelledError", of |-> 0]
  /\ rpPc' = "raised"
  /\ UNCHANGED <<retryPolicy, attempt, funcLog, slept, lastException>>
  /\ UNCHANGED <<mgrVars, cbVars, fbVars>>

\* line 324: the loop is over; raise last_exception
RPExhausted ==
  /\ rpPc = "for"
  /\ attempt \notin Range(retryPolicy.max_attempts)
  /\ rpResult' = [kind |-> "Exception", of |-> lastException]
  /\ rpPc' = "raised"
  /\ UNCHANGED <<retryPolicy, attempt, funcLog, slept, lastException>>
  /\ UNCHANGED <<mgrVars, cbVars, fbVars>>

RPNext ==
  \/ RPAttempt
  \/ \E o \in FuncOutcomes : RPFuncAnswers(o)
  \/ RPSleepEnds
  \/ RPSleepCancelled
  \/ RPExhausted

\* a breaker that nothing calls: the defaults scaled to the bounds
CBIdle ==
  /\ failureThreshold = 1
  /\ recoveryTimeout = 1
  /\ CBConstructed

\* a breaker constructed with any threshold and recovery timeout, everything
\* else idle
InitCB == MgrInit /\ CBInit /\ FBIdle /\ RPIdle

SpecCB == InitCB /\ [][CBNext]_vars

\* one analyze_with_fallback call, beside a manager, a breaker and a retry
\* policy that stay idle (nothing in the repository wires them together)
InitFB == MgrInit /\ CBIdle /\ FBInit /\ RPIdle

SpecFB == InitFB /\ [][FBNext]_vars

\* one RetryPolicy.execute call, everything else idle
InitRP == MgrInit /\ CBIdle /\ FBIdle /\ RPInit

SpecRP == InitRP /\ [][RPNext]_vars

\* the manager with a breaker that nothing calls (nothing in the repository
\* wires a CircuitBreaker around a task)
Init ==
  /\ MgrInit
  /\ failureThreshold = 1
  /\ recoveryTimeout = 1
  /\ CBConstructed
  /\ FBIdle
  /\ RPIdle

\* Task ids are caller-chosen names that the manager only compares for
\* equality, so the callers take a name that was never submitted before in
\* the order 1, 2, ...; and they stop after MaxSubmits submissions.
MaySubmit(id) ==
  /\ submits < MaxSubmits
  /\ \A j \in 1..(id - 1) : emitted[j].started + emitted[j].failed > 0

\* the manager's operations other than update_progress, each with its inputs
Next ==
  \/ \E id \in TaskIds : MaySubmit(id) /\ SubmitShutdown(id)
  \/ \E id \in TaskIds : MaySubmit(id) /\ SubmitDuplicate(id)
  \/ \E id \in TaskIds : \E t \in TimeoutValues :
        MaySubmit(id) /\ SubmitAccept(id, t)
  \/ \E id \in TaskIds : SubmitAddCallback(id)
  \/ \E id \in TaskIds : CancelTask(id)
  \/ ShutdownCall
  \/ ShutdownReturn
  \/ WorkerSkip
  \/ WorkerTake
  \/ \E id \in TaskIds : WorkerRun(id)
  \/ \E id \in TaskIds : WorkerCallbackEmit(id)
  \/ \E id \in TaskIds : WorkerCallbackPop(id)
  \/ \E id \in TaskIds : TimeoutElapses(id)

Spec == Init /\ [][Next]_vars

\* update_progress called at any moment of the life of the tasks
ProgressNext ==
  \/ \E id \in TaskIds : \E p \in ProgressValues :
        progressCalls < MaxProgress /\ UpdateProgress(id, p)
  \/ \E id \in TaskIds : MaySubmit(id) /\ SubmitDuplicate(id)
  \/ \E id \in TaskIds : MaySubmit(id) /\ SubmitAccept(id, NoTimeout)
  \/ \E id \in TaskIds : SubmitAddCallback(id)
  \/ WorkerTake
  \/ \E id \in TaskIds : WorkerRun(id)
  \/ \E id \in TaskIds : WorkerCallbackEmit(id)
  \/ \E id \in TaskIds : WorkerCallbackPop(id)

SpecProgress == Init /\ [][ProgressNext]_vars

\* one task more than the pool has threads, each submitted once
PoolNext ==
  \/ \E id \in PoolIds :
        /\ emitted[id].started = 0
        /\ \A j \in 1..(id - 1) : emitted[j].started > 0
        /\ SubmitAccept(id, NoTimeout)
  \/ \E id \in PoolIds : SubmitAddCallback(id)
  \/ WorkerTake
  \/ \E id \in PoolIds : WorkerRun(id)
  \/ \E id \in PoolIds : WorkerCallbackEmit(id)
  \/ \E id \in PoolIds : WorkerCallbackPop(id)

SpecPool == Init /\ [][PoolNext]_vars

\* a step of a pool thread
WorkerStep ==
  \/ WorkerSkip
  \/ WorkerTake
  \/ \E id \in TaskIds : WorkerRun(id)
  \/ \E id \in TaskIds : WorkerBlocks(id)
  \/ \E id \in TaskIds : WorkerCallbackEmit(id)
  \/ \E id \in TaskIds : WorkerCallbackPop(id)

\* shutdown called at any moment of the life of tasks that are each submitted
\* once, with callers that may pass a coro_func that does not return
ShutdownNext ==
  \/ \E id \in TaskIds :
        /\ emitted[id].started = 0
        /\ MaySubmit(id)
        /\ SubmitAccept(id, NoTimeout)
  \/ \E id \in TaskIds : MaySubmit(id) /\ SubmitShutdown(id)
  \/ \E id \in TaskIds : SubmitAddCallback(id)
  \/ \E id \in TaskIds : CancelTask(id)
  \/ ShutdownCall
  \/ ShutdownReturn
  \/ WorkerSkip
  \/ WorkerTake
  \/ \E id \in TaskIds : WorkerRun(id)
  \/ \E id \in TaskIds : WorkerBlocks(id)
  \/ \E id \in TaskIds : WorkerCallbackEmit(id)
  \/ \E id \in TaskIds : WorkerCallbackPop(id)

\* the pool's threads are scheduled by the operating system: a thread that
\* can take a step takes one; and executor.shutdown returns once it can
SpecShutdown ==
  /\ Init
  /\ [][ShutdownNext]_vars
  /\ WF_vars(WorkerStep)
  /\ WF_vars(ShutdownReturn)

\* ------------------------------------------------------------------ claims

Terminal(id) == emitted[id].completed + emitted[id].failed
                + emitted[id].cancelled

\* work items of task id that a worker will run or is running
Dispatched(id) ==
  Cardinality({k \in DOMAIN workQueue :
                 workQueue[k].id = id /\ ~workQueue[k].cancelled})
  + (IF wpc[id] = "run" THEN 1 ELSE 0)

\* C1: the completion handler emits exactly one terminal signal for every
\* accepted task: none while its work item waits or runs, one once its result
\* is handled, one when the manager has let go of its future, and never two,
\* whatever cancel_task, the timeout and shutdown do in between.
C1_ExactlyOneTerminal ==
  \A id \in TaskIds :
    /\ Len(terminals[id]) <= 1
    /\ taskFutures[id] \in {"PENDING", "RUNNING"} => terminals[id] = <<>>
    /\ wpc[id] = "cb_pop" => Len(terminals[id]) = 1
    /\ emitted[id].started > 0 /\ taskFutures[id] = "none"
         => Len(terminals[id]) = 1

\* C1 witness: cancel_task reached a task while its worker was running it,
\* and the task has since ended with its one terminal signal
C1_Witness ==
  \E id \in TaskIds :
    /\ cancelReq[id] = "RUNNING"
    /\ taskFutures[id] = "none"
    /\ Len(terminals[id]) = 1

\* C2: at most one work item per task id is dispatched at any time, and a
\* submit_async_task call for an id that is in _task_futures queues nothing,
\* starts nothing and emits no task_started: it emits task_failed(id) only.
C2_DuplicateRejected ==
  /\ [](\A id \in TaskIds : Dispatched(id) <= 1)
  /\ [][\A id \in TaskIds :
          (submits' = submits + 1 /\ emitted'[id] # emitted[id]
             /\ taskFutures[id] # "none")
          => /\ workQueue' = workQueue
             /\ taskFutures' = taskFutures
             /\ wpc' = wpc
             /\ emitted'[id].started = emitted[id].started
             /\ emitted'[id].failed = emitted[id].failed + 1]_vars

\* C2 witness: a second submission of an id was rejected while the first
\* task of that id is still in flight
C2_Witness ==
  \E id \in TaskIds :
    /\ ~shutdownFlag
    /\ emitted[id].started = 1
    /\ emitted[id].failed = 1
    /\ taskFutures[id] \in {"PENDING", "RUNNING"}

\* C3 (as claimed): for every id, #terminal <= #started <= #terminal + 1,
\* counting every completed/failed/cancelled emission for the id.
C3_StartedPairedWithTerminal ==
  \A id \in TaskIds :
    /\ Terminal(id) <= emitted[id].started
    /\ emitted[id].started <= Terminal(id) + 1

\* C4 (as claimed): a task that cancel_task reached while it was queued or
\* running ends with task_cancelled, never task_failed or task_completed.
C4_CancelYieldsCancelled ==
  \A id \in TaskIds :
    (cancelReq[id] \in {"PENDING", "RUNNING"} /\ terminals[id] # <<>>)
      => terminals[id][1].sig = "cancelled"

\* C5 (as claimed): when cancel_task is called while the worker still runs the
\* task or holds its result, before the terminal signal is emitted, that
\* signal is task_cancelled and not the signal of the worker's own outcome.
C5_CancellationWinsRace ==
  \A id \in TaskIds :
    (cancelReq[id] \in {"RUNNING", "cb_emit"} /\ wpc[id] = "cb_pop")
      => /\ terminals[id][1].sig = "cancelled"
         /\ terminals[id][1].sig # "completed"

\* C6 (as claimed): a task submitted with a timeout whose timeout elapsed
\* before it returned, and which nobody cancelled, ends with task_failed
\* carrying a TimeoutError.
C6_TimeoutFails ==
  \A id \in TaskIds :
    (timeoutOf[id] # NoTimeout /\ elapsed[id] /\ cancelReq[id] = "none"
       /\ terminals[id] # <<>>)
      => terminals[id][1] = [sig |-> "failed", msg |-> "TimeoutError"]

\* C7 (as claimed): once shutdown has run cancel_all_tasks, every task whose
\* work item still waits or runs has had cancel() called on it.
C7_ShutdownSignalsAll ==
  uiPc = <<"executor_shutdown", 0>>
    => \A id \in TaskIds :
         taskFutures[id] \in {"PENDING", "RUNNING"} => cancelReq[id] # "none"

\* C8 (as claimed): an accepted task never waits for another task to finish:
\* whenever a work item waits in the queue a pool thread is free to take it.
C8_NoStarvation == workQueue # <<>> => Busy < MaxWorkers

\* C9 (as claimed): progress(id) is emitted only between task_started(id) and
\* the terminal signal of that task.
C9_ProgressInOrder ==
  [][\A id \in TaskIds :
       emitted'[id].progress > emitted[id].progress
         => /\ emitted[id].started > 0
            /\ taskFutures[id] # "none"
            /\ terminals[id] = <<>>]_vars

\* C10 (as claimed): of the calls that went on to func while the breaker was
\* HALF_OPEN, at most one is inside func at any time.
C10_OneTrialCall ==
  Cardinality({c \in Callers :
                 callPc[c] = "func" /\ entered[c] = "HALF_OPEN"}) <= 1

\* C11: a failure that brings _failure_count to failure_threshold leaves the
\* breaker OPEN (a CLOSED breaker has counted fewer failures than the
\* threshold), and a call that arrives while the breaker is OPEN and
\* now - _last_failure_time < recovery_timeout is rejected at once: func is
\* not awaited and the breaker's state, count and failure time stay as they
\* are.
C11_OpenRejects ==
  /\ [](cbState = "CLOSED" => failureCount < failureThreshold)
  /\ [][/\ (failureCount' = failureCount + 1
              /\ failureCount' >= failureThreshold) => cbState' = "OPEN"
        /\ \A c \in Callers :
             (/\ cbState = "OPEN"
              /\ now - lastFailureTime < recoveryTimeout
              /\ callPc[c] = "idle"
              /\ (callPc'[c] # "idle" \/ outcome'[c] # outcome[c]))
             => /\ callPc'[c] = "idle"
                /\ outcome'[c] = "rejected"
                /\ UNCHANGED <<cbState, failureCount, lastFailureTime>>]_vars

\* C11 witness: two failures opened a breaker of threshold 2, and a call made
\* before the recovery timeout has passed was rejected
C11_Witness ==
  \E c \in Callers :
    /\ failureThreshold = 2
    /\ failureCount = 2
    /\ cbState = "OPEN"
    /\ now - lastFailureTime < recoveryTimeout
    /\ outcome[c] = "rejected"

\* C12 (as claimed): when a call that went on to func in HALF_OPEN ends, its
\* outcome sets the state: func returning leaves CLOSED with a count of 0,
\* func raising an expected_exception leaves OPEN with _last_failure_time
\* set to the time of that failure.
C12_TrialOutcomeDecides ==
  [][\A c \in Callers :
       (callPc[c] = "func" /\ entered[c] = "HALF_OPEN")
       => /\ callPc'[c] = "block"
               => (cbState' = "CLOSED" /\ failureCount' = 0)
          /\ (callPc'[c] = "idle" /\ outcome'[c] = "raised")
               => (cbState' = "OPEN" /\ lastFailureTime' = now)]_vars

\* the registered names of primary_provider and fallback_providers, in order
Chain ==
  SelectSeq(<<primaryProvider>> \o fallbackProviders,
            LAMBDA n : n \in providers)

\* the names whose analyze_text was awaited, in order
InvokedNames == [k \in DOMAIN invoked |-> invoked[k].name]

\* C13 (as claimed): analyze_with_fallback raises nothing but a cancellation,
\* and when no provider gave a clean result it returns a dict with 'error'.
C13_NeverThrows ==
  /\ fbPc = "raised" => fbResult.kind = "CancelledError"
  /\ (fbPc \in {"returned", "raised"}
        /\ \A k \in DOMAIN invoked : invoked[k].outcome # "result")
       => (fbPc = "returned" /\ fbResult.error)

\* C14: the providers awaited are the registered names of primary_provider
\* followed by fallback_providers, in that order and without gaps; none is
\* awaited after one that returned a dict without 'error'; that dict, and no
\* dict with 'error', is what the call returns, with provider_used set to the
\* name it was registered under and fallback_used true exactly when the call
\* that produced it was made by the fallback loop.
C14_FirstSuccessTagged ==
  /\ Len(invoked) <= Len(Chain)
  /\ \A k \in DOMAIN invoked : invoked[k].name = Chain[k]
  /\ \A k \in 1..(Len(invoked) - 1) : invoked[k].outcome # "result"
  /\ (invoked # <<>> /\ invoked[Len(invoked)].outcome = "result")
       => (fbPc = "returned" /\ fbResult.kind = "provider")
  /\ fbResult.kind = "provider"
       => /\ invoked # <<>>
          /\ invoked[Len(invoked)].outcome = "result"
          /\ ~fbResult.error
          /\ fbResult.provider_used = invoked[Len(invoked)].name
          /\ fbResult.fallback_used
               <=> ~(Len(invoked) = 1 /\ primaryProvider \in providers)

\* C14 witness: the primary returned an error payload, the first fallback
\* raised, and the second fallback's clean result was returned
C14_Witness ==
  /\ Len(invoked) = 3
  /\ invoked[1].outcome = "error"
  /\ invoked[2].outcome = "Exception"
  /\ fbPc = "returned"
  /\ fbResult.kind = "provider"
  /\ fbResult.fallback_used
  /\ fbResult.provider_used = fallbackProviders[2]

\* C15: func is invoked at most max_attempts times; every invocation but the
\* last one raised; a returning invocation ends execute with that
\* invocation's value; and execute gives up only after max_attempts
\* invocations.
C15_StopsAtFirstSuccess ==
  /\ Len(funcLog) <= retryPolicy.max_attempts
  /\ \A k \in 1..(Len(funcLog) - 1) : funcLog[k] = "Exception"
  /\ (funcLog # <<>> /\ funcLog[Len(funcLog)] = "return")
       => /\ rpPc = "returned"
          /\ rpResult = [kind |-> "value", of |-> Len(funcLog)]
  /\ rpPc = "returned" => funcLog[Len(funcLog)] = "return"
  /\ rpResult.kind = "Exception" => Len(funcLog) = retryPolicy.max_attempts

\* C15 witness: func raised max_attempts - 1 = 2 times and then returned
C15_Witness ==
  /\ retryPolicy.max_attempts = 3
  /\ funcLog = <<"Exception", "Exception", "return">>
  /\ rpPc = "returned"
  /\ rpResult.of = 3

\* C16: the i-th delay given to asyncio.sleep, the one before attempt i + 1,
\* is min(initial_delay * exponential_base^(i - 1), max_delay); attempt k is
\* made after exactly k - 1 delays, so none precedes attempt 1; and none is
\* slept after a returning attempt or after the last failed attempt.
C16_DelayBeforeAttempt ==
  /\ \A i \in DOMAIN slept :
       LET grown == retryPolicy.initial_delay
                    * Pow(retryPolicy.exponential_base, (i + 1) - 2)
       IN  slept[i] = IF grown < retryPolicy.max_delay THEN grown
                      ELSE retryPolicy.max_delay
  /\ Len(slept) <= retryPolicy.max_attempts - 1
  /\ rpPc \in {"await_func", "returned"} => Len(slept) = Len(funcLog) - 1
  /\ rpResult.kind = "Exception" => Len(slept) = Len(funcLog) - 1

\* C16 witness: two delays were slept, the second one capped by max_delay
C16_Witness ==
  /\ Len(slept) = 2
  /\ slept[1] < slept[2]
  /\ slept[2] = retryPolicy.max_delay
  /\ slept[2] < retryPolicy.initial_delay * retryPolicy.exponential_base
  /\ Len(funcLog) = 3

\* C17: the exception that execute raises after max_attempts failed attempts
\* is the one the last attempt raised; the exception of an earlier attempt
\* is never what execute raises, and never reaches a caller that got a value.
C17_LastExceptionPropagates ==
  /\ (Len(funcLog) = retryPolicy.max_attempts
        /\ (\A k \in DOMAIN funcLog : funcLog[k] = "Exception")
        /\ rpPc \in {"returned", "raised"})
       => /\ rpPc = "raised"
          /\ rpResult = [kind |-> "Exception",
                         of |-> retryPolicy.max_attempts]
  /\ rpResult.kind = "Exception"
       => rpResult.of \notin 0..(retryPolicy.max_attempts - 1)
  /\ rpPc = "returned" => rpResult.kind = "value"

\* C17 witness: three attempts failed and execute raised the third exception
C17_Witness ==
  /\ retryPolicy.max_attempts = 3
  /\ funcLog = <<"Exception", "Exception", "Exception">>
  /\ rpPc = "raised"
  /\ rpResult.of = 3

\* C18 (as claimed): the providers_tried of the all-failed dict is the list
\* of the names whose analyze_text was awaited, in the order of the calls.
C18_TriedAreInvoked ==
  fbResult.kind = "all_failed" => fbResult.providers_tried = InvokedNames

\* C19 (as claimed): cancel_task reports True (lines 205 and 211, the only
\* paths that write cancelReq) only for a task whose work item still waits
\* or runs; once _run_async_task has returned it reports False.
C19_CancelAfterReturnIsFalse ==
  \A id \in TaskIds : cancelReq[id] \in {"none", "PENDING", "RUNNING"}

C21_ShutdownReturns ==
  (uiPc = <<"executor_shutdown", 0>>) ~> (uiPc = <<"idle", 0>>)

C23_ProgressInRange ==
  /\ [](/\ \A k \in DOMAIN progressLog :
             0 <= progressLog[k].progress /\ progressLog[k].progress <= 100
        /\ Len(progressLog) = progressCalls
        /\ \A id \in TaskIds :
             emitted[id].progress
               = Cardinality({k \in DOMAIN progressLog :
                                progressLog[k].id = id}))
  /\ [][\A id \in TaskIds : \A p \in ProgressValues :
          (UpdateProgress(id, p) /\ (p < 0 \/ p > 100))
            => UNCHANGED vars]_vars

\* C23 witness: progress_updated was emitted with the largest progress
C23_Witness ==
  /\ progressLog # <<>>
  /\ progressLog[Len(progressLog)].progress = 100
  /\ emitted[progressLog[Len(progressLog)].id].progress >= 1

\* C24: a submit_async_task call made once shutdown() has set the flag
\* queues nothing, stores no future (is_task_running(id) is false after it),
\* starts no worker and emits task_failed(id) and nothing else.
C24_SubmitAfterShutdownRefused ==
  [][(shutdownFlag /\ submits' = submits + 1)
       => /\ UNCHANGED <<workQueue, taskFutures, futResult, callbacks, wpc,
                         tasks, terminals>>
          /\ \E id \in TaskIds :
               /\ emitted' = Emit(emitted, id, "failed")
               /\ taskFutures'[id] = "none"]_vars

\* C24 witness: an id that was never accepted was submitted after shutdown()
\* had returned and got task_failed
C24_Witness ==
  \E id \in TaskIds :
    /\ shutdownFlag
    /\ uiPc = <<"idle", 0>>
    /\ emitted[id] = [NoSignals EXCEPT !.failed = 1]
    /\ taskFutures[id] = "none"

\* C25: once shutdown() has returned no future is left in _task_futures, no
\* work item waits or runs, and every task that was accepted has had its
\* terminal signal.
C25_ShutdownLeavesNothing ==
  (shutdownFlag /\ uiPc = <<"idle", 0>>)
    => /\ workQueue = <<>>
       /\ \A id \in TaskIds :
            /\ taskFutures[id] = "none"
            /\ wpc[id] = "idle"
            /\ emitted[id].started > 0 => Len(terminals[id]) = 1

\* C25 witness: shutdown() has returned after two tasks were accepted, one of
\* which a cancel_task call had found running
C25_Witness ==
  /\ shutdownFlag
  /\ uiPc = <<"idle", 0>>
  /\ \A id \in 1..2 : emitted[id].started > 0 /\ Len(terminals[id]) = 1
  /\ \E id \in 1..2 : cancelReq[id] = "RUNNING"

\* C26: an OPEN or HALF_OPEN breaker has counted at least failure_threshold
\* failures and has a _last_failure_time; a CLOSED one has counted fewer.
C26_StateInvariant ==
  /\ cbState \in {"OPEN", "HALF_OPEN"}
       => (failureCount >= failureThreshold /\ lastFailureTime # NoTime)
  /\ cbState = "CLOSED" => failureCount < failureThreshold

\* C26 witness: a breaker of threshold 2 that has been open is CLOSED again
\* with its count back at 0
C26_Witness ==
  /\ failureThreshold = 2
  /\ cbState = "CLOSED"
  /\ failureCount = 0
  /\ lastFailureTime # NoTime

\* C27: func returning while the breaker is CLOSED leaves _failure_count and
\* _state as they are; the count goes down only to 0, and only when func
\* returns while the breaker is HALF_OPEN.
C27_ClosedSuccessKeepsCount ==
  [][/\ \A c \in Callers :
          (callPc[c] = "func" /\ callPc'[c] = "block" /\ cbState = "CLOSED")
          => (failureCount' = failureCount /\ cbState' = "CLOSED")
     /\ failureCount' < failureCount
          => (cbState = "HALF_OPEN" /\ failureCount' = 0
                /\ \E c \in Callers :
                     callPc[c] = "func" /\ callPc'[c] = "block")]_vars

\* C27 witness: the only caller so far had a call fail and then a call
\* succeed through the CLOSED breaker of threshold 2, and the count is still 1
C27_Witness ==
  \E c \in Callers :
    /\ failureThreshold = 2
    /\ cbState = "CLOSED"
    /\ failureCount = 1
    /\ outcome[c] = "result"
    /\ callPc[c] = "idle"
    /\ \A d \in Callers \ {c} : entered[d] = "none" /\ outcome[d] = "none"

\* C28: the step that rejects a call changes neither _state nor
\* _failure_count nor _last_failure_time, so the moment from which a trial
\* call is admitted stays where the last failure put it.
C28_RejectionLeavesBreaker ==
  [][\A c \in Callers :
       (outcome[c] # "rejected" /\ outcome'[c] = "rejected")
       => /\ UNCHANGED <<cbState, failureCount, lastFailureTime>>
          /\ callPc' = callPc]_vars

\* C28 witness: a call was rejected, and a trial call was then admitted at
\* the very moment the recovery timeout of 2 after the last failure ended
C28_Witness ==
  \E c \in Callers : \E d \in Callers :
    /\ recoveryTimeout = 2
    /\ outcome[c] = "rejected"
    /\ callPc[d] = "func"
    /\ entered[d] = "HALF_OPEN"
    /\ cbState = "HALF_OPEN"
    /\ now = lastFailureTime + recoveryTimeout

\* C29: a CancelledError raised by func is the last thing func did: execute
\* raised it at once, without a further delay or invocation; and a
\* cancellation delivered during a delay ended execute with no invocation
\* after that delay.
C29_CancellationNotRetried ==
  /\ \A k \in DOMAIN funcLog :
       funcLog[k] = "CancelledError"
         => /\ k = Len(funcLog)
            /\ Len(slept) = k - 1
            /\ rpPc = "raised"
            /\ rpResult = [kind |-> "CancelledError", of |-> k]
  /\ rpResult = [kind |-> "CancelledError", of |-> 0]
       => /\ rpPc = "raised"
          /\ Len(funcLog) = Len(slept)
          /\ \A k \in DOMAIN funcLog : funcLog[k] = "Exception"

\* C29 witness: with two attempts left, execute was cancelled in its first
\* delay
C29_Witness ==
  /\ retryPolicy.max_attempts = 3
  /\ rpResult = [kind |-> "CancelledError", of |-> 0]
  /\ funcLog = <<"Exception">>
  /\ Len(slept) = 1

\* the number of the analyze_text call made for position j of
\* fallback_providers when the primary is registered
CallOfPosition(j) ==
  1 + Cardinality({m \in 1..j : fallbackProviders[m] \in providers})

\* C30 (as claimed): at most 1 + len(fallback_providers) calls are made; and
\* when the registered primary failed and its name is also at position i of
\* fallback_providers, with every provider called for an earlier position
\* failing too, the primary is called again for position i, and a clean
\* result of that call is returned with provider_used = primary_provider and
\* fallback_used = True.
C30_PrimaryRetriedAsFallback ==
  /\ Len(invoked) <= 1 + Len(fallbackProviders)
  /\ \A i \in DOMAIN fallbackProviders :
       (/\ fbPc \in {"returned", "raised"}
        /\ primaryProvider \in providers
        /\ fallbackProviders[i] = primaryProvider
        /\ invoked[1].outcome \in {"error", "Exception"}
        /\ \A k \in 2..(CallOfPosition(i) - 1) :
             k <= Len(invoked) => invoked[k].outcome \in {"error", "Exception"})
       => /\ Len(invoked) >= CallOfPosition(i)
          /\ invoked[CallOfPosition(i)].name = primaryProvider
          /\ invoked[CallOfPosition(i)].outcome = "result"
               => fbResult = [ProviderDict("result") EXCEPT
                                !.provider_used = primaryProvider,
                                !.fallback_used = TRUE]

====
